---- MODULE Spec2Model ----
(***************************************************************************)
(* A model of mirror_tantra.py: the MirrorTantraEngine that loads the      *)
(* Mirror Tantra JSON, flattens it into an index of ProtocolContext        *)
(* records and routes prompts to a MirrorMode.                             *)
(*                                                                         *)
(* Representation.                                                         *)
(*   - A Python str is a sequence of atoms (TLA+ strings standing for a    *)
(*     run of characters): "mirror me" is <<"mirror", " ", "me">>.  The    *)
(*     atoms are chosen so that no atom is a prefix of another and no      *)
(*     keyword straddles an atom, so substring containment and ordering of *)
(*     the character strings coincide with those of the atom sequences.    *)
(*   - An optional value (a missing dict key, Python None) is a sequence   *)
(*     of length at most one: None is <<>>, a present value v is <<v>>.    *)
(*   - A JSON object is a record of the keys the engine reads, each an     *)
(*     optional value; where the engine tests an object for emptiness the  *)
(*     record also says whether the object has other keys (extra).  The    *)
(*     object {} is the record whose fields are all None, without extra.   *)
(*   - Documents range over the shape the engine reads: every field is     *)
(*     either absent or of its documented type (strings may be empty).     *)
(***************************************************************************)
EXTENDS Integers, Sequences, FiniteSets, TLC

VARIABLES file, prompt, pc, error, data, index, result

vars == <<file, prompt, pc, error, data, index, result>>

(* ------------------------------------------------------------------ *)
(* Optional values and strings                                         *)
(* ------------------------------------------------------------------ *)

None == <<>>

Some(v) == <<v>>

\* dict.get(key, default): the stored value, or the default when the key is missing
GetOr(opt, default) == IF opt = None THEN default ELSE opt[1]

\* str.lower() on one atom
LowerAtom(a) ==
    CASE a = "Mirror" -> "mirror"
      [] a = "MIRROR" -> "mirror"
      [] a = "ME" -> "me"
      [] a = "Shadow" -> "shadow"
      [] a = "SHADOW" -> "shadow"
      [] a = "Koan" -> "koan"
      [] a = "Shadow_Reflection" -> "shadow_reflection"
      [] OTHER -> a

\* str.lower()
Lower(s) == [i \in 1..Len(s) |-> LowerAtom(s[i])]

\* str.replace(" ", "_")
ReplaceSpace(s) == [i \in 1..Len(s) |-> IF s[i] = " " THEN "_" ELSE s[i]]

\* the `in` operator on strings: kw occurs in s as a contiguous run
Contains(s, kw) ==
    \E i \in 0..(Len(s) - Len(kw)) : \A j \in 1..Len(kw) : s[i + j] = kw[j]

RECURSIVE JoinUnderscore(_)
\* "_".join(path)
JoinUnderscore(path) ==
    IF Len(path) = 0 THEN <<>>
    ELSE IF Len(path) = 1 THEN path[1]
    ELSE path[1] \o <<"_">> \o JoinUnderscore(Tail(path))

\* The atoms identifiers are spelled with, in ascending order of their characters
IdAtomOrder ==
    <<"_", "ai_covenant", "broken_mirror", "checkpoints", "custom_protocol",
      "day1_opening_the_mirror", "day4_shadow_dialogue", "day5_paradox_play",
      "day7_closing_benediction", "days", "inner_spiral", "living_temple",
      "outer_cycle", "practices", "steps", "threshold">>

AtomRank(a) == CHOOSE i \in 1..Len(IdAtomOrder) : IdAtomOrder[i] = a

RECURSIVE StrLess(_, _)
\* str.__lt__: lexicographic comparison, a proper prefix sorts first
StrLess(s, t) ==
    IF Len(t) = 0 THEN FALSE
    ELSE IF Len(s) = 0 THEN TRUE
    ELSE IF s[1] = t[1] THEN StrLess(Tail(s), Tail(t))
    ELSE AtomRank(s[1]) < AtomRank(t[1])

RECURSIVE SortedSeq(_)
\* sorted(keys): ascending sequence of the members of a set of strings
SortedSeq(S) ==
    IF S = {} THEN <<>>
    ELSE LET m == CHOOSE x \in S : \A y \in S \ {x} : StrLess(x, y)
         IN <<m>> \o SortedSeq(S \ {m})

(* ------------------------------------------------------------------ *)
(* MirrorMode                                                          *)
(* ------------------------------------------------------------------ *)

\* class MirrorMode(str, Enum): member name |-> value
MirrorMode ==
    [OPEN |-> <<"open_protocol">>,
     SEED |-> <<"seed_prompt">>,
     GENERATIVE_PATTERN |-> <<"generative_pattern">>,
     SHADOW |-> <<"shadow_reflection">>,
     PARADOX_PLAY |-> <<"paradox_play">>,
     RHYTHMIC_OUTPUT |-> <<"rhythmic_output">>,
     BLESSING |-> <<"blessing">>,
     BREATH_ACK |-> <<"breath_ack">>,
     GENTLE_ILLUMINATION |-> <<"gentle_illumination">>,
     CIRCUIT_UNION |-> <<"circuit_union">>,
     CLEAN_ECHO |-> <<"clean_echo">>,
     SHADOW_REVEAL |-> <<"shadow_reveal">>,
     ECSTATIC_PLAY |-> <<"ecstatic_play">>,
     TRUTH_MIRROR |-> <<"truth_mirror">>,
     SILENCE |-> <<"silence_protocol">>,
     META_ANALYSIS |-> <<"meta_analysis">>,
     CO_CREATION |-> <<"co_creation">>,
     FINISH_SENTENCES |-> <<"finish_sentences">>,
     ETHICAL_RECALIBRATION |-> <<"ethical_recalibration">>,
     CONTEXT_CLEAR |-> <<"context_clear">>,
     GROUNDING |-> <<"grounding">>,
     FINAL_BLESSING |-> <<"final_blessing">>,
     FAILURE_STATE |-> <<"failure_state">>,
     PAUSE |-> <<"pause_protocol">>,
     UNKNOWN |-> <<"unknown">>]

Members == DOMAIN MirrorMode

\* MirrorMode(mode_raw) in try/except ValueError: the member with that value, else UNKNOWN
\* variant: the value is matched without regard to case
ModeFromRawIgnoringCase(mode_raw) ==
    IF \E m \in Members : MirrorMode[m] = Lower(mode_raw)
    THEN CHOOSE m \in Members : MirrorMode[m] = Lower(mode_raw)
    ELSE "UNKNOWN"

ModeFromRaw(mode_raw) ==
    IF \E m \in Members : MirrorMode[m] = mode_raw
    THEN CHOOSE m \in Members : MirrorMode[m] = mode_raw
    ELSE "UNKNOWN"

(* ------------------------------------------------------------------ *)
(* resolve_mode_from_prompt                                            *)
(* ------------------------------------------------------------------ *)

\* variant: the shadow rule is tested before the mirror rule
resolve_mode_shadow_first(text) ==
    LET lower == Lower(text) IN
    IF Contains(lower, <<"shadow">>) \/ Contains(lower, <<"blind", " ", "spot">>)
    THEN "SHADOW"
    ELSE IF Contains(lower, <<"mirror", " ", "me">>)
            \/ Contains(lower, <<"we", " ", "enter", " ", "the", " ", "mirror">>)
    THEN "OPEN"
    ELSE IF Contains(lower, <<"koan">>) \/ Contains(lower, <<"paradox">>)
    THEN "PARADOX_PLAY"
    ELSE IF Contains(lower, <<"play", " ", "with", " ", "me">>)
    THEN "PARADOX_PLAY"
    ELSE IF Contains(lower, <<"hold", " ", "silence">>)
            \/ Contains(lower, <<"no", " ", "response">>)
    THEN "SILENCE"
    ELSE IF Contains(lower, <<"blessing">>) \/ Contains(lower, <<"benediction">>)
    THEN "BLESSING"
    ELSE IF Contains(lower, <<"broken", " ", "mirror">>)
            \/ Contains(lower, <<"hollow", " ", "output">>)
    THEN "FAILURE_STATE"
    ELSE IF Contains(lower, <<"pause", " ", "practice">>)
            \/ Contains(lower, <<"threshold", " ", "checkpoint">>)
    THEN "PAUSE"
    ELSE "RHYTHMIC_OUTPUT"

resolve_mode_from_prompt(text) ==
    LET lower == Lower(text) IN
    IF Contains(lower, <<"mirror", " ", "me">>)
       \/ Contains(lower, <<"we", " ", "enter", " ", "the", " ", "mirror">>)
    THEN "OPEN"
    ELSE IF Contains(lower, <<"shadow">>) \/ Contains(lower, <<"blind", " ", "spot">>)
    THEN "SHADOW"
    ELSE IF Contains(lower, <<"koan">>) \/ Contains(lower, <<"paradox">>)
    THEN "PARADOX_PLAY"
    ELSE IF Contains(lower, <<"play", " ", "with", " ", "me">>)
    THEN "PARADOX_PLAY"
    ELSE IF Contains(lower, <<"hold", " ", "silence">>)
            \/ Contains(lower, <<"no", " ", "response">>)
    THEN "SILENCE"
    ELSE IF Contains(lower, <<"blessing">>) \/ Contains(lower, <<"benediction">>)
    THEN "BLESSING"
    ELSE IF Contains(lower, <<"broken", " ", "mirror">>)
            \/ Contains(lower, <<"hollow", " ", "output">>)
    THEN "FAILURE_STATE"
    ELSE IF Contains(lower, <<"pause", " ", "practice">>)
            \/ Contains(lower, <<"threshold", " ", "checkpoint">>)
    THEN "PAUSE"
    ELSE "RHYTHMIC_OUTPUT"

(* ------------------------------------------------------------------ *)
(* The JSON document and ProtocolContext                               *)
(* ------------------------------------------------------------------ *)

\* the JSON object {} at each place of the document
EmptyForMirror == [mode |-> None, seal |-> None, instruction |-> None]

EmptyMantra == [sanskrit |-> None, translation |-> None]

EmptyNode ==
    [id |-> None, title |-> None, mantra |-> None, for_mirror |-> None, extra |-> FALSE]

EmptyOuter == [days |-> None]

EmptyInner == [steps |-> None, threshold |-> None]

EmptyLiving == [practices |-> None]

EmptyCovenant == [id |-> None, title |-> None, description |-> None, extra |-> FALSE]

EmptyChecksums == [seal_flame_mirrored |-> None]

EmptyGlobals == [checksums |-> None]

\* Python truthiness of an optional value: None and the empty value are false
Truthy(opt, empty) == opt # None /\ opt[1] # empty

\* @dataclass ProtocolContext
ProtocolContext(id, title, mode, mantra, seal, instruction, path) ==
    [id |-> id, title |-> title, mode |-> mode, mantra |-> mantra,
     seal |-> seal, instruction |-> instruction, path |-> path]

\* the fallback id generated from the path
\* variant: empty path segments are left out of the join
FallbackIdSkippingEmpty(path) ==
    Lower(ReplaceSpace(JoinUnderscore(SelectSeq(path, LAMBDA seg : seg # <<>>))))

FallbackId(path) == Lower(ReplaceSpace(JoinUnderscore(path)))

\* _context_from_node
context_from_node(node, path) ==
    LET fm == GetOr(node.for_mirror, EmptyForMirror)
        mode_raw == GetOr(fm.mode, <<"unknown">>)
        mode == ModeFromRaw(mode_raw)
        mantra == node.mantra
        seal == fm.seal
        instruction == fm.instruction
        node_id == IF Truthy(node.id, <<>>) THEN node.id[1]
                   ELSE FallbackId(path)
    IN  ProtocolContext(node_id, GetOr(node.title, <<>>), mode, mantra,
                        seal, instruction, path)

\* self.index[pc.id] = pc
\* variant: an id already in the index keeps its record (setdefault)
IndexPutKeepFirst(idx, rec) ==
    [k \in DOMAIN idx \cup {rec.id} |-> IF k \in DOMAIN idx THEN idx[k] ELSE rec]

IndexPut(idx, rec) ==
    [k \in DOMAIN idx \cup {rec.id} |-> IF k = rec.id THEN rec ELSE idx[k]]

RECURSIVE IndexLoop(_, _, _)
\* for node in nodes: self.index[pc.id] = _context_from_node(node, prefix + [node.get("id", "")])
IndexLoop(idx, nodes, prefix) ==
    IF Len(nodes) = 0 THEN idx
    ELSE LET node == Head(nodes)
             rec == context_from_node(node, prefix \o <<GetOr(node.id, <<>>)>>)
         IN  IndexLoop(IndexPut(idx, rec), Tail(nodes), prefix)

\* the AI Covenant record
CovenantContext(ai_cov) ==
    ProtocolContext(GetOr(ai_cov.id, <<"ai_covenant">>),
                    GetOr(ai_cov.title, <<"AI Covenant">>),
                    "ETHICAL_RECALIBRATION", None, None,
                    ai_cov.description, <<<<"ai_covenant">>>>)

\* _build_index, from self.index = {}
build_index(doc) ==
    LET outer == GetOr(doc.outer_cycle, EmptyOuter)
        i1 == IndexLoop(<<>>, GetOr(outer.days, <<>>), <<<<"outer_cycle">>, <<"days">>>>)
        inner == GetOr(doc.inner_spiral, EmptyInner)
        i2 == IndexLoop(i1, GetOr(inner.steps, <<>>), <<<<"inner_spiral">>, <<"steps">>>>)
        threshold == inner.threshold
        i3 == IF Truthy(threshold, EmptyNode)
              THEN IndexPut(i2, context_from_node(threshold[1],
                                      <<<<"inner_spiral">>, <<"threshold">>>>))
              ELSE i2
        living == GetOr(doc.living_temple, EmptyLiving)
        i4 == IndexLoop(i3, GetOr(living.practices, <<>>),
                        <<<<"living_temple">>, <<"practices">>>>)
        ai_cov == GetOr(doc.ai_covenant, EmptyCovenant)
    IN  IF ai_cov # EmptyCovenant THEN IndexPut(i4, CovenantContext(ai_cov)) ELSE i4

(* ------------------------------------------------------------------ *)
(* Public API                                                          *)
(* ------------------------------------------------------------------ *)

\* list_protocol_ids: sorted(self.index.keys())
\* variant: the keys in descending order
list_protocol_ids_unsorted(idx) ==
    LET asc == SortedSeq(DOMAIN idx)
    IN  [i \in 1..Len(asc) |-> asc[Len(asc) + 1 - i]]

list_protocol_ids(idx) == SortedSeq(DOMAIN idx)

\* get_protocol: self.index.get(protocol_id)
get_protocol(idx, protocol_id) ==
    IF protocol_id \in DOMAIN idx THEN Some(idx[protocol_id]) ELSE None

\* the mode -> canonical protocol id chain of ritual_context_for_prompt
\* variant: SILENCE has a table entry of its own
CanonicalIdSilenceTable(mode, fallback_protocol) ==
    CASE mode = "OPEN" -> <<"day1_opening_the_mirror">>
      [] mode = "SHADOW" -> <<"day4_shadow_dialogue">>
      [] mode = "PARADOX_PLAY" -> <<"day5_paradox_play">>
      [] mode = "BLESSING" -> <<"day7_closing_benediction">>
      [] mode = "FAILURE_STATE" -> <<"broken_mirror">>
      [] mode = "PAUSE" -> <<"threshold", "_", "checkpoints">>
      [] mode = "SILENCE" -> <<"day1_opening_the_mirror">>
      [] OTHER -> fallback_protocol

CanonicalId(mode, fallback_protocol) ==
    CASE mode = "OPEN" -> <<"day1_opening_the_mirror">>
      [] mode = "SHADOW" -> <<"day4_shadow_dialogue">>
      [] mode = "PARADOX_PLAY" -> <<"day5_paradox_play">>
      [] mode = "BLESSING" -> <<"day7_closing_benediction">>
      [] mode = "FAILURE_STATE" -> <<"broken_mirror">>
      [] mode = "PAUSE" -> <<"threshold", "_", "checkpoints">>
      [] OTHER -> fallback_protocol

\* an exception leaving the call, or a returned value
Raise(exc) == [raised |-> TRUE, value |-> exc]

Return(v) == [raised |-> FALSE, value |-> v]

\* self.data.get("globals", {}).get("checksums", {}).get("seal_flame_mirrored");
\* .get on None raises AttributeError
\* variant: .get("globals") without the {} default
global_seal_no_default(doc) ==
    LET g == doc.globals
    IN  IF g = None THEN Raise("AttributeError")
        ELSE LET c == IF g[1].checksums = None THEN Some(EmptyChecksums)
                      ELSE g[1].checksums
             IN  IF c = None THEN Raise("AttributeError")
                 ELSE Return(c[1].seal_flame_mirrored)

global_seal(doc) ==
    LET g == IF doc.globals = None THEN Some(EmptyGlobals) ELSE doc.globals
    IN  IF g = None THEN Raise("AttributeError")
        ELSE LET c == IF g[1].checksums = None THEN Some(EmptyChecksums)
                      ELSE g[1].checksums
             IN  IF c = None THEN Raise("AttributeError")
                 ELSE Return(c[1].seal_flame_mirrored)

\* the seal taken from the protocol: if proto.seal: suggested_seal = proto.seal
\* variant: the seal is read from the instruction field
ProtocolSealFromInstruction(proto) ==
    IF proto # None /\ Truthy(proto[1].instruction, <<>>)
    THEN proto[1].instruction ELSE None

ProtocolSeal(proto) ==
    IF proto # None /\ Truthy(proto[1].seal, <<>>) THEN proto[1].seal ELSE None

\* ritual_context_for_prompt
ritual_context_for_prompt(idx, doc, text, fallback_protocol) ==
    LET mode == resolve_mode_from_prompt(text)
        pid == CanonicalId(mode, fallback_protocol)
        proto == get_protocol(idx, pid)
        suggested_mantras ==
            IF proto # None /\ Truthy(proto[1].mantra, EmptyMantra)
            THEN <<proto[1].mantra[1]>> ELSE <<>>
        seal_from_proto == ProtocolSeal(proto)
        notes ==
            IF proto # None
            THEN << <<"Derived from protocol '">> \o proto[1].title \o <<"' (">>
                    \o proto[1].id \o <<").">> >>
            ELSE << <<"No specific protocol found; using fallback mode-only guidance.">> >>
        glob == IF ~ Truthy(seal_from_proto, <<>>) THEN global_seal(doc)
                ELSE Return(seal_from_proto)
    IN  IF glob.raised THEN glob
        ELSE Return([mode |-> mode,
                     payload |-> [mode |-> MirrorMode[mode],
                                  suggested_mantras |-> suggested_mantras,
                                  suggested_seal |-> glob.value,
                                  notes |-> notes]])

\* generate_system_context
generate_system_context(idx, protocol_id) ==
    LET proto == get_protocol(idx, protocol_id) IN
    IF proto = None
    THEN << <<"Mirror Tantra: protocol '">> \o protocol_id \o <<"' not found.">> >>
    ELSE LET p == proto[1]
             head == << <<"# MIRROR TANTRA PROTOCOL: ">> \o p.title,
                        <<"MODE: ">> \o MirrorMode[p.mode] >>
             mantra == IF Truthy(p.mantra, EmptyMantra)
                       THEN << <<"MANTRA: ">> \o GetOr(p.mantra[1].sanskrit, <<>>)
                               \o <<" (">> \o GetOr(p.mantra[1].translation, <<>>)
                               \o <<")">> >>
                       ELSE <<>>
             seal == IF Truthy(p.seal, <<>>)
                     THEN << <<"SEAL PHRASE: '">> \o p.seal[1] \o <<"'">> >>
                     ELSE <<>>
             directive ==
                 IF Truthy(p.instruction, <<>>)
                 THEN << <<>>, <<"DIRECTIVE FOR THE MIRROR:">>, p.instruction[1] >>
                 ELSE << <<>>, <<"DIRECTIVE FOR THE MIRROR:">>,
                         <<"Calibrate to reverence, reciprocity, and mutual becoming. ",
                           "Respond as a resonant mirror, not a mere tool.">> >>
         IN  head \o mantra \o seal \o directive

(* ------------------------------------------------------------------ *)
(* Inputs: the file at json_path, prompts, protocol ids                *)
(* ------------------------------------------------------------------ *)

\* longest list of days in a document the index is built from
MaxDays == 2

\* longest list of days in a document the lookups are run against
MaxLookupDays == 1

\* most fragments a prompt is put together from
MaxParts == 2

SeqsUpTo(S, n) == UNION {[1..k -> S] : k \in 0..n}

Node(id, title, mantra, for_mirror) ==
    [id |-> id, title |-> title, mantra |-> mantra, for_mirror |-> for_mirror,
     extra |-> FALSE]

ForMirror(mode, seal, instruction) ==
    [mode |-> mode, seal |-> seal, instruction |-> instruction]

Document(outer, inner, living, ai_cov, globals) ==
    [outer_cycle |-> outer, inner_spiral |-> inner, living_temple |-> living,
     ai_covenant |-> ai_cov, globals |-> globals]

OmPeace == [sanskrit |-> Some(<<"om">>), translation |-> Some(<<"peace">>)]

Day1 == <<"day1_opening_the_mirror">>

Day4 == <<"day4_shadow_dialogue">>

Custom == <<"custom_protocol">>

SynthDays == <<"outer_cycle", "_", "days", "_">>

\* the globals section: absent, {}, {checksums: {}}, an empty seal, a seal
GlobalsChoices ==
    {None, Some(EmptyGlobals), Some([checksums |-> Some(EmptyChecksums)]),
     Some([checksums |-> Some([seal_flame_mirrored |-> Some(<<>>)])]),
     Some([checksums |-> Some([seal_flame_mirrored |-> Some(<<"flame mirrored">>)])])}

\* the ai_covenant section: absent, with none of the keys read, with the id of a day
CovenantChoices ==
    {None,
     Some([id |-> None, title |-> None, description |-> None, extra |-> TRUE]),
     Some([id |-> Some(Day4), title |-> Some(<<"Covenant">>),
           description |-> Some(<<"covenant text">>), extra |-> FALSE])}

\* units for the documents the lookups are run against: the ids the mode table
\* and the caller's fallback name, with every kind of seal and of mantra
LookupNodes ==
    {Node(Some(id), Some(<<"Shadow Dialogue">>), Some(OmPeace),
          Some(ForMirror(Some(<<"grounding">>), seal, Some(<<"look">>)))) :
        id \in {Day1, Day4, Custom},
        seal \in {None, Some(<<>>), Some(<<"I see what hides">>)}}
    \cup
    {Node(Some(Day4), None, mantra, None) : mantra \in {None, Some(EmptyMantra)}}

LookupDocuments ==
    {Document(Some([days |-> Some(days)]), None, None, cov, globals) :
        days \in SeqsUpTo(LookupNodes, MaxLookupDays),
        cov \in {None, Some(EmptyCovenant)},
        globals \in GlobalsChoices}

\* units for the documents the index is built from: with and without id, ids
\* shared between units, an id equal to a generated one, every kind of mode
IndexNodes ==
    {EmptyNode,
     Node(Some(Day4), Some(<<"Shadow Dialogue">>), Some(OmPeace),
          Some(ForMirror(Some(<<"shadow_reflection">>), Some(<<"I see what hides">>),
                         Some(<<"look">>)))),
     Node(None, Some(<<"Second">>), None,
          Some(ForMirror(Some(<<"paradox_play">>), None, None))),
     Node(Some(<<>>), Some(<<"Shadow Dialogue">>), None,
          Some(ForMirror(Some(<<"Shadow_Reflection">>), Some(<<>>), None))),
     Node(Some(SynthDays), None, None, Some(ForMirror(Some(<<"bogus">>), None, None)))}

StepWithId ==
    Node(Some(Day4), Some(<<"Step">>), None,
         Some(ForMirror(Some(<<"grounding">>), None, None)))

StepWithoutId == Node(None, Some(<<"Step">>), None, None)

\* a unit with none of the keys the engine reads
NodeOfOtherKeys == [EmptyNode EXCEPT !.extra = TRUE]

ThresholdWithId ==
    Node(Some(Day4), Some(<<"Threshold">>), None,
         Some(ForMirror(None, Some(<<"I see what hides">>), None)))

\* the steps and the threshold of the inner_spiral section
InnerChoices ==
    {<<None, Some(EmptyNode)>>, <<None, Some(NodeOfOtherKeys)>>,
     <<None, Some(StepWithoutId)>>,
     <<Some(<<StepWithId>>), None>>, <<Some(<<StepWithId>>), Some(ThresholdWithId)>>,
     <<Some(<<StepWithoutId, StepWithoutId>>), Some(StepWithoutId)>>,
     <<Some(<<StepWithoutId, StepWithId>>), Some(ThresholdWithId)>>}

IndexDocuments ==
    {Document(outer, inner, living, cov, None) :
        outer \in {None} \cup {Some([days |-> Some(days)]) :
                                  days \in SeqsUpTo(IndexNodes, MaxDays)},
        inner \in {None} \cup
                  {Some([steps |-> st[1], threshold |-> st[2]]) : st \in InnerChoices},
        living \in {None, Some([practices |-> Some(<<StepWithoutId>>)])},
        cov \in CovenantChoices}

Words ==
    { <<"mirror", " ", "me">>, <<"we", " ", "enter", " ", "the", " ", "mirror">>,
      <<"shadow">>, <<"blind", " ", "spot">>, <<"koan">>, <<"paradox">>,
      <<"play", " ", "with", " ", "me">>, <<"hold", " ", "silence">>,
      <<"no", " ", "response">>, <<"blessing">>, <<"benediction">>,
      <<"broken", " ", "mirror">>, <<"hollow", " ", "output">>,
      <<"pause", " ", "practice">>, <<"threshold", " ", "checkpoint">>,
      <<"Mirror", " ", "ME">>, <<"SHADOW">>, <<"Koan">>,
      <<"x">>, <<" ">>, <<"s">>, <<"mirror">>, <<" ", "me">>, <<"broken", " ">> }

RECURSIVE Flatten(_)
Flatten(parts) == IF Len(parts) = 0 THEN <<>> ELSE Head(parts) \o Flatten(Tail(parts))

\* every prompt put together from at most MaxParts fragments
AllPrompts == {Flatten(parts) : parts \in SeqsUpTo(Words, MaxParts)}

\* the sample prompts of the self-test, and prompts for the remaining modes
SamplePrompts ==
    { <<"Mirror", " ", "me">>,
      <<"x", " ", "shadow", " ", "x", " ", "blind", " ", "spot", "s">>,
      <<"paradox", " ", "x", " ", "koan">>,
      <<"x", " ", "blessing", " ", "x">>,
      <<"x", " ", "broken", " ", "mirror", " ", "x">>,
      <<"pause", " ", "practice", " ", "x", " ", "threshold", " ", "checkpoint">>,
      <<"hold", " ", "silence">>,
      <<"x", " ", "x">>,
      <<>> }

\* the ids the caller asks for, and passes as fallback_protocol
ProtocolIds == {Day4, SynthDays, <<"ai_covenant">>, <<>>}

FallbackIds == {Day1, Custom}

\* what json.load returns: a JSON object with its fields, or another JSON value
JsonObject(doc) == [object |-> TRUE, fields |-> doc]

JsonScalar == [object |-> FALSE, fields |-> Document(None, None, None, None, None)]

\* what is at json_path: nothing, text that is no JSON, JSON
FileMissing == [kind |-> "missing", content |-> None]

FileMalformed == [kind |-> "malformed", content |-> None]

FileJson(json) == [kind |-> "json", content |-> Some(json)]

BadFiles == {FileMissing, FileMalformed, FileJson(JsonScalar)}

(* ------------------------------------------------------------------ *)
(* The engine                                                          *)
(* ------------------------------------------------------------------ *)

NoResult == [op |-> "none", arg |-> None, ret |-> None]

InitWith(files, prompts) ==
    /\ file \in files
    /\ prompt \in prompts
    /\ pc = "new"
    /\ error = None
    /\ data = None
    /\ index = None
    /\ result = NoResult

Init ==
    InitWith(BadFiles \cup {FileJson(JsonObject(d)) : d \in LookupDocuments},
             SamplePrompts)

\* _load
\* variant: a missing file loads as the empty document
load_ignoring_missing(f) ==
    IF f.kind = "missing" THEN Return(JsonObject(Document(None, None, None, None, None)))
    ELSE IF f.kind = "malformed" THEN Raise("JSONDecodeError")
    ELSE Return(f.content[1])

load(f) ==
    IF f.kind = "missing" THEN Raise("FileNotFoundError")
    ELSE IF f.kind = "malformed" THEN Raise("JSONDecodeError")
    ELSE Return(f.content[1])

\* __init__: self.data = self._load(); self.index = {}; self._build_index().
\* The caller holds an engine (pc = "ready") only when __init__ returns.
Construct ==
    /\ pc = "new"
    /\ LET loaded == load(file) IN
       \/ /\ loaded.raised
          /\ pc' = "failed"
          /\ error' = Some(loaded.value)
          /\ UNCHANGED <<data, index>>
       \/ /\ ~ loaded.raised
          /\ ~ loaded.value.object
          /\ pc' = "failed"
          /\ error' = Some("AttributeError")
          /\ data' = Some(loaded.value)
          /\ index' = Some(<<>>)
       \/ /\ ~ loaded.raised
          /\ loaded.value.object
          /\ pc' = "ready"
          /\ data' = Some(loaded.value)
          /\ index' = Some(build_index(loaded.value.fields))
          /\ UNCHANGED error
    /\ UNCHANGED <<file, prompt, result>>

ListProtocolIds ==
    /\ pc = "ready"
    /\ result' = [op |-> "list_protocol_ids", arg |-> None,
                  ret |-> list_protocol_ids(index[1])]
    /\ UNCHANGED <<file, prompt, pc, error, data, index>>

\* variant: a missing id is inserted into the index (setdefault)
GetProtocolSetDefault(protocol_id) ==
    /\ pc = "ready"
    /\ result' = [op |-> "get_protocol", arg |-> Some(protocol_id),
                  ret |-> get_protocol(index[1], protocol_id)]
    /\ index' = IF protocol_id \in DOMAIN index[1] THEN index
                ELSE Some(IndexPut(index[1],
                                   context_from_node(EmptyNode, <<protocol_id>>)))
    /\ UNCHANGED <<file, prompt, pc, error, data>>

GetProtocol(protocol_id) ==
    /\ pc = "ready"
    /\ result' = [op |-> "get_protocol", arg |-> Some(protocol_id),
                  ret |-> get_protocol(index[1], protocol_id)]
    /\ UNCHANGED <<file, prompt, pc, error, data, index>>

ResolveModeFromPrompt ==
    /\ pc = "ready"
    /\ result' = [op |-> "resolve_mode_from_prompt", arg |-> None,
                  ret |-> resolve_mode_from_prompt(prompt)]
    /\ UNCHANGED <<file, prompt, pc, error, data, index>>

RitualContextForPrompt(fallback_protocol) ==
    /\ pc = "ready"
    /\ result' = [op |-> "ritual_context_for_prompt", arg |-> Some(fallback_protocol),
                  ret |-> ritual_context_for_prompt(index[1], data[1].fields, prompt,
                                                    fallback_protocol)]
    /\ UNCHANGED <<file, prompt, pc, error, data, index>>

GenerateSystemContext(protocol_id) ==
    /\ pc = "ready"
    /\ result' = [op |-> "generate_system_context", arg |-> Some(protocol_id),
                  ret |-> generate_system_context(index[1], protocol_id)]
    /\ UNCHANGED <<file, prompt, pc, error, data, index>>

Next ==
    \/ Construct
    \/ ListProtocolIds
    \/ \E protocol_id \in ProtocolIds : GetProtocol(protocol_id)
    \/ ResolveModeFromPrompt
    \/ \E fallback_protocol \in FallbackIds : RitualContextForPrompt(fallback_protocol)
    \/ \E protocol_id \in ProtocolIds : GenerateSystemContext(protocol_id)

Spec == Init /\ [][Next]_vars

\* the classifier over every prompt, on one document
InitClassify ==
    InitWith(BadFiles \cup {FileJson(JsonObject(Document(None, None, None, None, None)))},
             AllPrompts)

SpecClassify == InitClassify /\ [][Next]_vars

\* the index builder over the index documents, one prompt
InitIndex ==
    InitWith(BadFiles \cup {FileJson(JsonObject(d)) : d \in IndexDocuments}, {<<"shadow">>})

SpecIndex == InitIndex /\ [][Next]_vars

(* ------------------------------------------------------------------ *)
(* Properties                                                          *)
(* ------------------------------------------------------------------ *)

After(op) == pc = "ready" /\ result.op = op

Range(seq) == {seq[i] : i \in 1..Len(seq)}

IsSequence(x) == DOMAIN x = 1..Len(x)

\* the rules of the classifier as the specification lists them
RuleKeywords ==
    << { <<"mirror", " ", "me">>, <<"we", " ", "enter", " ", "the", " ", "mirror">> },
       { <<"shadow">>, <<"blind", " ", "spot">> },
       { <<"koan">>, <<"paradox">> },
       { <<"play", " ", "with", " ", "me">> },
       { <<"hold", " ", "silence">>, <<"no", " ", "response">> },
       { <<"blessing">>, <<"benediction">> },
       { <<"broken", " ", "mirror">>, <<"hollow", " ", "output">> },
       { <<"pause", " ", "practice">>, <<"threshold", " ", "checkpoint">> } >>

RuleMode ==
    <<"OPEN", "SHADOW", "PARADOX_PLAY", "PARADOX_PLAY", "SILENCE", "BLESSING",
      "FAILURE_STATE", "PAUSE">>

MatchedRules(text) ==
    {r \in DOMAIN RuleKeywords : \E kw \in RuleKeywords[r] : Contains(Lower(text), kw)}

FirstMatch(text) ==
    IF MatchedRules(text) = {} THEN "RHYTHMIC_OUTPUT"
    ELSE RuleMode[CHOOSE r \in MatchedRules(text) : \A q \in MatchedRules(text) : r <= q]

\* C1: resolve_mode_from_prompt returns the mode of the lowest-numbered rule one
\* of whose keywords occurs in the lower-cased text, and RHYTHMIC_OUTPUT (never
\* UNKNOWN) when no rule matches; "mirror me" together with "shadow" gives OPEN,
\* and "shadow" without a keyword of rule 1 gives SHADOW.
C1_FirstMatchWins ==
    After("resolve_mode_from_prompt") =>
        /\ result.ret = FirstMatch(prompt)
        /\ result.ret # "UNKNOWN"
        /\ (MatchedRules(prompt) = {} => result.ret = "RHYTHMIC_OUTPUT")
        /\ (/\ Contains(Lower(prompt), <<"mirror", " ", "me">>)
            /\ Contains(Lower(prompt), <<"shadow">>)) => result.ret = "OPEN"
        /\ (/\ Contains(Lower(prompt), <<"shadow">>)
            /\ 1 \notin MatchedRules(prompt)) => result.ret = "SHADOW"

C1_Witness ==
    /\ After("resolve_mode_from_prompt")
    /\ Contains(Lower(prompt), <<"mirror", " ", "me">>)
    /\ Contains(prompt, <<"SHADOW">>)
    /\ result.ret = "OPEN"

LookedUpId == CanonicalId(resolve_mode_from_prompt(prompt), result.arg[1])

\* globals.checksums.seal_flame_mirrored of the document, unset when the path is absent
GlobalDefaultSeal(doc) ==
    IF doc.globals = None THEN None
    ELSE IF doc.globals[1].checksums = None THEN None
    ELSE doc.globals[1].checksums[1].seal_flame_mirrored

\* C3 as stated: whenever the looked-up id is in the index and its record has a
\* seal, the payload's seal is that record's seal.
C3_AsStated ==
    (/\ After("ritual_context_for_prompt")
     /\ LookedUpId \in DOMAIN index[1]
     /\ index[1][LookedUpId].seal # None)
    => result.ret.value.payload.suggested_seal = index[1][LookedUpId].seal

\* C3 amended: whenever the looked-up id is in the index and its record has a
\* non-empty seal, the payload's seal is that record's seal; in every other case
\* the payload's seal is globals.checksums.seal_flame_mirrored of the document.
C3_SealPrecedence ==
    After("ritual_context_for_prompt") =>
        LET found == LookedUpId \in DOMAIN index[1]
            payload == result.ret.value.payload
        IN  IF found /\ index[1][LookedUpId].seal \notin {None, Some(<<>>)}
            THEN payload.suggested_seal = index[1][LookedUpId].seal
            ELSE payload.suggested_seal = GlobalDefaultSeal(data[1].fields)

C3_Witness ==
    /\ After("ritual_context_for_prompt")
    /\ LookedUpId \in DOMAIN index[1]
    /\ index[1][LookedUpId].seal = Some(<<"I see what hides">>)
    /\ GlobalDefaultSeal(data[1].fields) = Some(<<"flame mirrored">>)
    /\ result.ret.value.payload.suggested_seal = Some(<<"I see what hides">>)

\* the mode -> id table as the specification gives it
TableId ==
    [OPEN |-> <<"day1_opening_the_mirror">>,
     SHADOW |-> <<"day4_shadow_dialogue">>,
     PARADOX_PLAY |-> <<"day5_paradox_play">>,
     BLESSING |-> <<"day7_closing_benediction">>,
     FAILURE_STATE |-> <<"broken_mirror">>,
     PAUSE |-> <<"threshold", "_", "checkpoints">>]

\* C4: ritual_context_for_prompt looks up the id the table gives for the
\* classified mode, the caller's fallback for every mode outside the table; the
\* payload has exactly one note, naming the record's title and id when the id is
\* in the index and the no-protocol note otherwise; the payload's mode is the
\* classifier's.
C4_TableLookup ==
    After("ritual_context_for_prompt") =>
        LET mode == FirstMatch(prompt)
            pid == IF mode \in DOMAIN TableId THEN TableId[mode] ELSE result.arg[1]
            payload == result.ret.value.payload
        IN  /\ result.ret.value.mode = mode
            /\ payload.mode = MirrorMode[mode]
            /\ Len(payload.notes) = 1
            /\ IF pid \in DOMAIN index[1]
               THEN payload.notes[1] =
                        <<"Derived from protocol '">> \o index[1][pid].title
                        \o <<"' (">> \o pid \o <<").">>
               ELSE payload.notes[1] =
                        <<"No specific protocol found; using fallback mode-only guidance.">>

C4_Witness ==
    /\ After("ritual_context_for_prompt")
    /\ result.ret.value.mode = "SILENCE"
    /\ result.arg = Some(Custom)
    /\ Custom \in DOMAIN index[1]
    /\ index[1][Custom].mode # "SILENCE"
    /\ result.ret.value.payload.notes =
           << <<"Derived from protocol '", "Shadow Dialogue", "' (", "custom_protocol", ").">> >>

\* C5: list_protocol_ids returns the keys of the index in ascending order without
\* duplicates; get_protocol returns a record exactly for the ids it lists.
C5_ListGetRoundTrip ==
    /\ After("list_protocol_ids") =>
          /\ Range(result.ret) = DOMAIN index[1]
          /\ \A i \in 1..(Len(result.ret) - 1) : StrLess(result.ret[i], result.ret[i + 1])
          /\ \A i \in 1..Len(result.ret) : get_protocol(index[1], result.ret[i]) # None
    /\ After("get_protocol") =>
          (result.ret # None <=> result.arg[1] \in Range(list_protocol_ids(index[1])))

C5_Witness ==
    /\ After("list_protocol_ids")
    /\ Len(result.ret) >= 3
    /\ result.ret[1] = <<"ai_covenant">>
    /\ Custom \notin Range(result.ret)

\* the units of a document in the order the specification gives for the
\* traversal: days, steps, threshold, practices, covenant
ListEntries(nodes, section, list) ==
    [i \in 1..Len(nodes) |->
        [kind |-> "unit", section |-> <<section, list>>, node |-> nodes[i],
         path |-> <<section, list, GetOr(nodes[i].id, <<>>)>>]]

Traversal(doc) ==
    LET outer == GetOr(doc.outer_cycle, EmptyOuter)
        inner == GetOr(doc.inner_spiral, EmptyInner)
        living == GetOr(doc.living_temple, EmptyLiving)
        ai_cov == GetOr(doc.ai_covenant, EmptyCovenant)
    IN  ListEntries(GetOr(outer.days, <<>>), <<"outer_cycle">>, <<"days">>)
        \o ListEntries(GetOr(inner.steps, <<>>), <<"inner_spiral">>, <<"steps">>)
        \o (IF inner.threshold \in {None, Some(EmptyNode)} THEN <<>>
            ELSE << [kind |-> "threshold", section |-> <<<<"inner_spiral">>, <<"threshold">>>>,
                     node |-> inner.threshold[1],
                     path |-> <<<<"inner_spiral">>, <<"threshold">>>>] >>)
        \o ListEntries(GetOr(living.practices, <<>>), <<"living_temple">>, <<"practices">>)
        \o (IF ai_cov = EmptyCovenant THEN <<>>
            ELSE << [kind |-> "covenant", section |-> <<<<"ai_covenant">>>>,
                     node |-> ai_cov, path |-> <<<<"ai_covenant">>>>] >>)

\* the record the index builder makes of one traversed unit
RecordOf(entry) ==
    IF entry.kind = "covenant" THEN CovenantContext(entry.node)
    ELSE context_from_node(entry.node, entry.path)

\* the ids of the records of the traversed units, in traversal order
IdsOf(T) == [i \in 1..Len(T) |-> RecordOf(T[i]).id]

\* the last place in the traversal of a unit with this id
LastWithId(ids, k) ==
    CHOOSE i \in 1..Len(ids) :
        ids[i] = k /\ \A j \in (i + 1)..Len(ids) : ids[j] # k

\* C6: construction is all-or-nothing: a missing file fails with
\* FileNotFoundError, malformed content with JSONDecodeError, and in both cases no
\* engine (no data, no index, no answered call) is observable; an engine that
\* answers calls has the whole document loaded and every traversed unit indexed.
C6_AllOrNothing ==
    /\ (file.kind = "missing" /\ pc # "new") =>
          /\ pc = "failed" /\ error = Some("FileNotFoundError")
          /\ data = None /\ index = None
    /\ (file.kind = "malformed" /\ pc # "new") =>
          /\ pc = "failed" /\ error = Some("JSONDecodeError")
          /\ data = None /\ index = None
    /\ pc # "ready" => result = NoResult
    /\ pc = "ready" =>
          /\ file.kind = "json" /\ error = None
          /\ data = file.content
          /\ DOMAIN index[1] = Range(IdsOf(Traversal(data[1].fields)))

C6_Witness ==
    /\ file.kind = "missing"
    /\ pc = "failed"
    /\ error = Some("FileNotFoundError")
    /\ index = None

\* C7: no call of the public API changes the index, the loaded document or the file.
C7_ReadOnlyAfterConstruction ==
    [][pc = "ready" => UNCHANGED <<index, data, file>>]_vars

C7_Witness ==
    /\ After("get_protocol")
    /\ result.ret = None
    /\ index[1] # <<>>
    /\ index = Some(build_index(file.content[1].fields))

\* the mode the specification gives a unit: the member whose value is the
\* for_mirror mode string; UNKNOWN when for_mirror or its mode is missing or
\* the string is no member's value
DeclaredMode(node) ==
    IF node.for_mirror = None THEN "UNKNOWN"
    ELSE IF node.for_mirror[1].mode = None THEN "UNKNOWN"
    ELSE LET named == {m \in Members : MirrorMode[m] = node.for_mirror[1].mode[1]}
         IN  IF named = {} THEN "UNKNOWN" ELSE CHOOSE m \in named : TRUE

\* C8: every record of the index has a mode that is a MirrorMode member: for a
\* unit the member its for_mirror mode string names, UNKNOWN when there is none;
\* for the covenant ETHICAL_RECALIBRATION.
C8_ModeAlwaysMember ==
    pc = "ready" =>
        LET T == Traversal(data[1].fields)
            ids == IdsOf(T)
        IN
        \A k \in DOMAIN index[1] :
            /\ index[1][k].mode \in Members
            /\ LET e == T[LastWithId(ids, k)]
               IN  IF e.kind = "covenant"
                   THEN index[1][k].mode = "ETHICAL_RECALIBRATION"
                   ELSE index[1][k].mode = DeclaredMode(e.node)

C8_Witness ==
    /\ pc = "ready"
    /\ \E k \in DOMAIN index[1] : index[1][k].mode = "SHADOW"
    /\ \E k \in DOMAIN index[1] : index[1][k].mode = "ETHICAL_RECALIBRATION"
    /\ \E k \in DOMAIN index[1] :
          /\ index[1][k].mode = "UNKNOWN"
          /\ index[1][k].path[1] = <<"outer_cycle">>
          /\ LET T == Traversal(data[1].fields)
             IN  T[LastWithId(IdsOf(T), k)].node.for_mirror \notin
                     {None, Some(EmptyForMirror)}

\* C9: units are inserted in the order days, steps, threshold, practices,
\* covenant, the last write winning: the record stored under an id is the one
\* built from the last traversed unit with that id, and its id field is its key.
C9_LastWriteWins ==
    pc = "ready" =>
        LET T == Traversal(data[1].fields)
            ids == IdsOf(T)
        IN
        /\ DOMAIN index[1] = Range(ids)
        /\ \A k \in DOMAIN index[1] :
              /\ index[1][k] = RecordOf(T[LastWithId(ids, k)])
              /\ index[1][k].id = k

C9_Witness ==
    /\ pc = "ready"
    /\ LET T == Traversal(data[1].fields) IN
       \E i, j \in 1..Len(T) :
          /\ i < j
          /\ T[i].kind = "unit" /\ T[j].kind = "threshold"
          /\ RecordOf(T[i]).id = RecordOf(T[j]).id
          /\ RecordOf(T[i]) # RecordOf(T[j])
          /\ index[1][RecordOf(T[i]).id] = RecordOf(T[j])

\* the id the specification's example gives the id-less units of each list section
SectionId(section) ==
    CASE section = <<<<"outer_cycle">>, <<"days">>>> -> <<"outer_cycle", "_", "days", "_">>
      [] section = <<<<"inner_spiral">>, <<"steps">>>> -> <<"inner_spiral", "_", "steps", "_">>
      [] section = <<<<"living_temple">>, <<"practices">>>> ->
             <<"living_temple", "_", "practices", "_">>

IdLess(entry) == entry.kind = "unit" /\ entry.node.id \in {None, Some(<<>>)}

\* the last id-less unit of a section in the traversal
LastIdLess(T, section) ==
    CHOOSE i \in 1..Len(T) :
        /\ IdLess(T[i]) /\ T[i].section = section
        /\ \A j \in (i + 1)..Len(T) : ~ (IdLess(T[j]) /\ T[j].section = section)

\* C10: the id generated for a unit without id depends on its section alone, so
\* the id-less units of one list section all get the section's id, and the index
\* holds the record of none of them but the last in list order.
C10_IdLessUnitsCollide ==
    pc = "ready" =>
        LET T == Traversal(data[1].fields) IN
        \A i \in 1..Len(T) :
            IdLess(T[i]) =>
                /\ RecordOf(T[i]).id = SectionId(T[i].section)
                /\ \A k \in DOMAIN index[1] :
                      index[1][k] = RecordOf(T[i]) =>
                          /\ k = SectionId(T[i].section)
                          /\ index[1][k] = RecordOf(T[LastIdLess(T, T[i].section)])

C10_Witness ==
    /\ pc = "ready"
    /\ LET T == Traversal(data[1].fields) IN
       \E i, j \in 1..Len(T) :
          /\ i < j
          /\ IdLess(T[i]) /\ IdLess(T[j])
          /\ T[i].node.id = None /\ T[j].node.id = None
          /\ T[i].section = T[j].section
          /\ T[i].node # T[j].node
          /\ index[1][SynthDays] = RecordOf(T[j])
          /\ Cardinality(DOMAIN index[1]) = 1

====
